---- MODULE Spec2Model ----
(***************************************************************************)
(* Cistern monitor (BFK-7_Projektaufgabe, Teil2): the sensor-state         *)
(* interpreter and notification-debounce loop of App in main.py, with the  *)
(* DatabaseManager and Notifier of Utils.py as the two sinks it drives.    *)
(* Teil1/main.py is the same loop without the table and the commands.     *)
(*                                                                         *)
(* A Python string is a sequence of one-character strings; positions are   *)
(* 0-based as in the source (position i is element i + 1 of the sequence). *)
(***************************************************************************)
EXTENDS Integers, Sequences, FiniteSets

VARIABLES
    default_value,          \* App.default_value
    active_value,           \* App.active_value
    water_level,            \* App.water_level
    triggered_water_areas,  \* App.triggered_water_areas (a list)
    database,               \* rows of the table, as a count per level text
    pc,                     \* "running" | "crashed" (uncaught IndexError) | "stopped" (exit)
    user_input,             \* the line the last mainloop iteration read
    branch,                 \* the branch the last iteration took
    emitted,                \* the sink calls of the last iteration, in order
    before                  \* active value, level, list and table when it began

vars == <<default_value, active_value, water_level, triggered_water_areas,
          database, pc, user_input, branch, emitted, before>>

----------------------------------------------------------------------------
(* Bounds *)

\* Rows the table may hold; an iteration that would add a row past it is not taken.
MaxDb == 2

----------------------------------------------------------------------------
(* Strings *)

\* main.py:40 and main.py:52: a reading has exactly 6 characters.
BitLen == 6

\* The binary digits; "x" stands for any character that is neither.
Bit == {"0", "1"}

RECURSIVE StringsOfLen(_)
StringsOfLen(n) ==
    IF n = 0 THEN {<<>>}
    ELSE {Append(s, c) : s \in StringsOfLen(n - 1), c \in Bit}

\* The 64 well-formed readings.
WellFormed == StringsOfLen(BitLen)

\* c in s
Contains(s, c) == \E i \in 1..Len(s) : s[i] = c

\* s.index(c), 0-based; only used where c is in s.
IndexOf(s, c) == (CHOOSE i \in 1..Len(s) : s[i] = c /\ \A j \in 1..(i - 1) : s[j] # c) - 1

\* s.rindex(c), 0-based; only used where c is in s.
RIndexOf(s, c) == (CHOOSE i \in 1..Len(s) : s[i] = c /\ \A j \in (i + 1)..Len(s) : s[j] # c) - 1

\* s[i::] for a 0-based i
SliceFrom(s, i) == SubSeq(s, i + 1, Len(s))

\* s.strip(c): leading and trailing runs of c removed
RECURSIVE LStrip(_, _)
LStrip(s, c) == IF Len(s) > 0 /\ s[1] = c THEN LStrip(Tail(s), c) ELSE s

RECURSIVE RStrip(_, _)
RStrip(s, c) ==
    IF Len(s) > 0 /\ s[Len(s)] = c THEN RStrip(SubSeq(s, 1, Len(s) - 1), c) ELSE s

Strip(s, c) == RStrip(LStrip(s, c), c)

\* int(s, 2) for a string of binary digits
RECURSIVE BinVal(_)
BinVal(s) ==
    IF Len(s) = 0 THEN 0
    ELSE 2 * BinVal(SubSeq(s, 1, Len(s) - 1)) + (IF s[Len(s)] = "1" THEN 1 ELSE 0)

\* list[::-1]
RECURSIVE Reverse(_)
Reverse(s) == IF Len(s) = 0 THEN <<>> ELSE Append(Reverse(Tail(s)), Head(s))

\* len(bit_value) != 6 or not all(x in "01" for x in bit_value)
BadFormat(bit_value) ==
    Len(bit_value) # BitLen \/ ~(\A i \in 1..Len(bit_value) : bit_value[i] \in Bit)

----------------------------------------------------------------------------
(* Configuration (config.json) *)

WATER_LEVEL_NAMES == <<"N0", "N1", "N2", "N3", "N4", "N5">>

SENSOR_NAMES == <<"S0", "S1", "S2", "S3", "S4", "S5">>

NOTIFICATION_WHEN_RISEN_ABOVE == {"N1"}

LevelNames == {WATER_LEVEL_NAMES[i] : i \in 1..Len(WATER_LEVEL_NAMES)}

SensorNames == {SENSOR_NAMES[i] : i \in 1..Len(SENSOR_NAMES)}

\* Python's None, and the IndexError a list access past the end raises.
None == "None"
IndexError == "IndexError"

----------------------------------------------------------------------------
(* App's pure methods *)

\* Faulty variant of TrailingOnes: the bits are not reversed, the run is
\* counted from the front.
RECURSIVE TrailingOnes_FromFront(_)
TrailingOnes_FromFront(s) ==
    IF Len(s) = 0 \/ s[1] # "1" THEN 0
    ELSE 1 + TrailingOnes_FromFront(Tail(s))

\* The loop of get_water_level: bits equal to "1" counted from the end until
\* the first other bit.
RECURSIVE TrailingOnes(_)
TrailingOnes(s) ==
    IF Len(s) = 0 \/ s[Len(s)] # "1" THEN 0
    ELSE 1 + TrailingOnes(SubSeq(s, 1, Len(s) - 1))

\* names[index] for a 0-based index: IndexError past the end.
ListGet(names, index) ==
    IF index + 1 \in 1..Len(names) THEN names[index + 1] ELSE IndexError

\* Faulty variant of get_water_level: the format check is missing.
get_water_level_NoFormatCheck(bit_value) ==
    ListGet(Reverse(WATER_LEVEL_NAMES), TrailingOnes(bit_value))

\* Faulty variant of get_water_level: the list of names is not reversed.
get_water_level_NotReversed(bit_value) ==
    IF BadFormat(bit_value) THEN None
    ELSE ListGet(WATER_LEVEL_NAMES, TrailingOnes(bit_value))

get_water_level(bit_value) ==
    IF BadFormat(bit_value) THEN None
    ELSE ListGet(Reverse(WATER_LEVEL_NAMES), TrailingOnes(bit_value))

\* Faulty variant of validate_bit_value: the slice starts at the last "1" (rindex).
validate_bit_value_FromLastOne(bit_value) ==
    IF BadFormat(bit_value) THEN FALSE
    ELSE IF Contains(bit_value, "1")
              /\ Contains(SliceFrom(bit_value, RIndexOf(bit_value, "1")), "0")
         THEN FALSE
         ELSE TRUE

\* Faulty variant of validate_bit_value: only the format is checked.
validate_bit_value_FormatOnly(bit_value) ==
    IF BadFormat(bit_value) THEN FALSE ELSE TRUE

validate_bit_value(bit_value) ==
    IF BadFormat(bit_value) THEN FALSE
    ELSE IF Contains(bit_value, "1")
              /\ Contains(SliceFrom(bit_value, IndexOf(bit_value, "1")), "0")
         THEN FALSE
         ELSE TRUE

get_failing_sensor_name(bit_value) ==
    IF ~Contains(Strip(bit_value, "0"), "0") THEN None
    ELSE ListGet(SENSOR_NAMES, RIndexOf(bit_value, "0"))

\* Faulty variant of one_bit_changed: two changed bits pass.
one_bit_changed_AtMostTwo(old_value, new_value) ==
    LET n == IF Len(old_value) < Len(new_value) THEN Len(old_value) ELSE Len(new_value)
    IN  Cardinality({i \in 1..n : old_value[i] # new_value[i]}) <= 2

\* len([True for old_bit, new_bit in zip(active, new) if old_bit != new_bit]) <= 1
one_bit_changed(old_value, new_value) ==
    LET n == IF Len(old_value) < Len(new_value) THEN Len(old_value) ELSE Len(new_value)
    IN  Cardinality({i \in 1..n : old_value[i] # new_value[i]}) <= 1

\* Faulty variant of may_accept: only a reading that is not lower is accepted.
may_accept_OnlyRise(old_value, new_value) ==
    /\ validate_bit_value(new_value)
    /\ one_bit_changed(old_value, new_value)
    /\ BinVal(new_value) >= BinVal(old_value)

\* Faulty variant of may_accept: any valid reading is accepted, however many
\* bits changed.
may_accept_AnyValid(old_value, new_value) ==
    validate_bit_value(new_value)

\* The condition of the first branch of the mainloop.
may_accept(old_value, new_value) ==
    /\ validate_bit_value(new_value)
    /\ \/ one_bit_changed(old_value, new_value)
       \/ /\ one_bit_changed(old_value, new_value)
          /\ BinVal(new_value) >= BinVal(old_value)

\* The condition of the second branch.
is_sensor_fault(new_value) ==
    ~validate_bit_value(new_value) /\ get_water_level(new_value) # None

\* "if int(user_input, 2) >= int(self.active_value, 2)", which the mainloop
\* evaluates after it has assigned user_input to self.active_value.
filled_up(new_value, assigned_active_value) ==
    BinVal(new_value) >= BinVal(assigned_active_value)

----------------------------------------------------------------------------
(* The sinks: DatabaseManager and Notifier *)

DbLabels == LevelNames \cup {"ERROR"}

EmptyDb == [l \in DbLabels |-> 0]

RECURSIVE SumOver(_, _)
SumOver(f, S) ==
    IF S = {} THEN 0
    ELSE LET x == CHOOSE y \in S : TRUE IN f[x] + SumOver(f, S \ {x})

\* Number of rows of the table.
DbSize(db) == SumOver(db, DOMAIN db)

add_entry(db, level) == [db EXCEPT ![level] = @ + 1]

delete_all_entries(db) == EmptyDb

\* SELECT level, COUNT(*) ... GROUP BY level
count_entries_by_level(db) == db

\* One call of a sink: its kind, its argument, and for a report the counts in it.
Ev(kind, arg) == [kind |-> kind, arg |-> arg, counts |-> EmptyDb]

ReportEv(counts) == [kind |-> "email_report", arg |-> "Report", counts |-> counts]

\* The state a handler works on.
AppState ==
    [active |-> active_value, level |-> water_level, trig |-> triggered_water_areas,
     db |-> database, out |-> <<>>, pc |-> "running", executed |-> FALSE]

\* Faulty variant of database_notification: the entries are deleted before
\* they are counted.
database_notification_DeleteFirst(st) ==
    LET counts == count_entries_by_level(delete_all_entries(st.db))
    IN  [st EXCEPT !.db = delete_all_entries(st.db),
                   !.out = st.out \o <<Ev("delete_all_entries", "all"),
                                      Ev("count_entries_by_level", "all"),
                                      ReportEv(counts)>>]

\* database_notification: count, delete all entries, then send the report.
database_notification(st) ==
    LET counts == count_entries_by_level(st.db)
    IN  [st EXCEPT !.db = delete_all_entries(st.db),
                   !.out = st.out \o <<Ev("count_entries_by_level", "all"),
                                      Ev("delete_all_entries", "all"),
                                      ReportEv(counts)>>]

InList(x, list) == \E i \in 1..Len(list) : list[i] = x

----------------------------------------------------------------------------
(* Commands *)

\* Faulty variant of reset_command: the triggered list is not cleared.
reset_command_KeepsList(st) ==
    LET level == get_water_level(default_value)
    IN  IF level = IndexError
        THEN [st EXCEPT !.executed = TRUE, !.active = default_value, !.pc = "crashed"]
        ELSE [st EXCEPT !.executed = TRUE, !.active = default_value, !.level = level]

\* The "reset" command: clear the list, back to the default value and its level.
reset_command(st) ==
    LET level == get_water_level(default_value)
    IN  IF level = IndexError
        THEN [st EXCEPT !.executed = TRUE, !.trig = <<>>,
                        !.active = default_value, !.pc = "crashed"]
        ELSE [st EXCEPT !.executed = TRUE, !.trig = <<>>,
                        !.active = default_value, !.level = level]

\* The body of the loop of handle_commands for one command.
handle_command(st, command) ==
    LET afterHelp ==
            IF command = "help"
            THEN [st EXCEPT !.out = st.out \o <<Ev("print", "help")>>, !.executed = TRUE]
            ELSE st
    IN
    IF command = "exit"
    THEN [afterHelp EXCEPT !.pc = "stopped"]      \* raise KeyboardInterrupt
    ELSE
    LET afterClear ==
            IF command = "clear"
            THEN [afterHelp EXCEPT !.executed = TRUE,
                                   !.db = delete_all_entries(afterHelp.db),
                                   !.out = afterHelp.out \o <<Ev("delete_all_entries", "all")>>]
            ELSE afterHelp
        afterNotify ==
            IF command = "notify"
            THEN database_notification([afterClear EXCEPT !.executed = TRUE])
            ELSE afterClear
    IN
    IF command = "reset" THEN reset_command(afterNotify) ELSE afterNotify

\* handle_commands: the commands in order; an exception ends the loop.
RECURSIVE handle_commands(_, _)
handle_commands(st, commands) ==
    IF Len(commands) = 0 \/ st.pc # "running" THEN st
    ELSE handle_commands(handle_command(st, Head(commands)), Tail(commands))

----------------------------------------------------------------------------
(* Inputs *)

\* A line of input: its words (user_input.split()) and its characters. A word
\* that is no command is "other"; a character that is no bit is "x".
Line(words, text) == [words |-> words, text |-> text]

ReadingLines == {Line(<<"other">>, b) : b \in WellFormed}

MalformedLines ==
    { Line(<<>>, <<>>),
      Line(<<"other">>, <<"1", "1", "1", "1", "1">>),
      Line(<<"other">>, <<"1", "1", "1", "1", "1", "1", "1">>),
      Line(<<"other">>, <<"0", "1", "x", "1", "1", "1">>),
      Line(<<"other", "other">>, <<"0", "1", "1", "x", "0", "1", "1">>) }

CommandText == <<"x", "x", "x", "x">>

CommandLines ==
    { Line(<<c>>, CommandText) : c \in {"help", "exit", "clear", "notify", "reset"} }
    \cup { Line(<<"clear", "reset">>, CommandText),
           Line(<<"reset", "notify">>, CommandText),
           Line(<<"reset", "exit">>, CommandText),
           Line(<<"exit", "reset">>, CommandText) }

Lines == ReadingLines \cup MalformedLines \cup CommandLines

\* The defaults App is constructed with.
Defaults ==
    { <<"1", "1", "1", "1", "1", "1">>,
      <<"0", "1", "1", "1", "1", "1">>,
      <<"0", "0", "0", "1", "1", "1">> }

----------------------------------------------------------------------------
(* The program *)

\* App.__init__: get_water_level(default) raises before the list is created.
Init ==
    /\ default_value \in Defaults
    /\ active_value = default_value
    /\ water_level = IF get_water_level(default_value) = IndexError
                     THEN None ELSE get_water_level(default_value)
    /\ pc = IF get_water_level(default_value) = IndexError THEN "crashed" ELSE "running"
    /\ triggered_water_areas = <<>>
    /\ database = EmptyDb
    /\ user_input = Line(<<>>, <<>>)
    /\ branch = "init"
    /\ emitted = <<>>
    /\ before = [active |-> active_value, level |-> water_level,
                 trig |-> triggered_water_areas, db |-> database]

Commit(st, line, br) ==
    /\ active_value' = st.active
    /\ water_level' = st.level
    /\ triggered_water_areas' = st.trig
    /\ database' = st.db
    /\ pc' = st.pc
    /\ emitted' = st.out
    /\ user_input' = line
    /\ branch' = br
    /\ before' = [active |-> active_value, level |-> water_level,
                  trig |-> triggered_water_areas, db |-> database]
    /\ UNCHANGED default_value

\* The first branch of the mainloop, entered with a reading that may be accepted.
accept_reading(st, reading) ==
    LET assigned == [st EXCEPT !.active = reading]
        level == get_water_level(assigned.active)
    IN
    IF level = IndexError THEN [assigned EXCEPT !.pc = "crashed"]
    ELSE
    LET stored == [assigned EXCEPT !.level = level,
                                   !.db = add_entry(assigned.db, level),
                                   !.out = assigned.out \o <<Ev("add_entry", level)>>]
        cleared == IF filled_up(reading, stored.active)
                   THEN LET c == [stored EXCEPT !.trig = <<>>]
                        IN  IF level \in NOTIFICATION_WHEN_RISEN_ABOVE
                            THEN database_notification(c) ELSE c
                   ELSE stored
    IN
    IF ~InList(level, cleared.trig)
    THEN [cleared EXCEPT !.out = cleared.out \o <<Ev("email_level", level)>>,
                         !.trig = Append(cleared.trig, level)]
    ELSE cleared

\* Faulty variant of report_sensor_fault: the triggered list is cleared too.
report_sensor_fault_ClearsList(st, reading) ==
    LET sensor == get_failing_sensor_name(reading)
    IN  [st EXCEPT !.out = st.out \o <<Ev("log_warning", sensor),
                                       Ev("email_fault", sensor),
                                       Ev("add_entry", "ERROR")>>,
                   !.db = add_entry(st.db, "ERROR"),
                   !.trig = <<>>]

\* Faulty variant of report_sensor_fault: the email is sent only while the
\* table holds no ERROR row yet.
report_sensor_fault_OncePerError(st, reading) ==
    LET sensor == get_failing_sensor_name(reading)
        email == IF st.db["ERROR"] = 0 THEN <<Ev("email_fault", sensor)>> ELSE <<>>
    IN  [st EXCEPT !.out = st.out \o <<Ev("log_warning", sensor)>> \o email
                                  \o <<Ev("add_entry", "ERROR")>>,
                   !.db = add_entry(st.db, "ERROR")]

\* The second branch: a sensor is failing.
report_sensor_fault(st, reading) ==
    LET sensor == get_failing_sensor_name(reading)
    IN  [st EXCEPT !.out = st.out \o <<Ev("log_warning", sensor),
                                       Ev("email_fault", sensor),
                                       Ev("add_entry", "ERROR")>>,
                   !.db = add_entry(st.db, "ERROR")]

\* The last branch: the change is not allowed or the format is wrong.
reject_reading(st, reading) ==
    [st EXCEPT !.out = st.out \o <<Ev("log_error", "rejected"), Ev("add_entry", "ERROR")>>,
               !.db = add_entry(st.db, "ERROR")]

\* An iteration of the mainloop in which handle_commands executed a command
\* (or raised): the loop continues with the next line.
CommandIteration(line) ==
    /\ pc = "running"
    /\ LET st == handle_commands(AppState, line.words)
       IN  /\ st.executed \/ st.pc # "running"
           /\ Commit(st, line, "command")

\* An iteration of the mainloop in which no command was executed: the line is
\* taken as a reading.
ReadingIteration(line) ==
    /\ pc = "running"
    /\ DbSize(database) < MaxDb
    /\ LET st == handle_commands(AppState, line.words)
       IN  /\ ~st.executed /\ st.pc = "running"
           /\ IF may_accept(active_value, line.text)
              THEN Commit(accept_reading(st, line.text), line, "accept")
              ELSE IF is_sensor_fault(line.text)
                   THEN Commit(report_sensor_fault(st, line.text), line, "fault")
                   ELSE Commit(reject_reading(st, line.text), line, "reject")

Next ==
    \E line \in Lines :
        \/ CommandIteration(line)
        \/ ReadingIteration(line)

Spec == Init /\ [][Next]_vars

----------------------------------------------------------------------------
(* Vocabulary of the properties, defined apart from the code's own tests *)

RECURSIVE Repeat(_, _)
Repeat(c, n) == IF n = 0 THEN <<>> ELSE <<c>> \o Repeat(c, n - 1)

\* The thermometer codes 0^k 1^(6-k), k = 0..6.
Thermometer == {Repeat("0", k) \o Repeat("1", BitLen - k) : k \in 0..BitLen}

\* Some "1" is followed later by a "0".
OneBeforeZero(p) == \E i, j \in 1..Len(p) : i < j /\ p[i] = "1" /\ p[j] = "0"

\* Number of positions in which two well-formed readings differ.
Hamming(p, q) == Cardinality({i \in 1..BitLen : p[i] # q[i]})

\* The last iteration took the line as a reading (no command was executed).
ReadingTaken == branch \in {"accept", "fault", "reject"}

Kinds(out) == {out[i].kind : i \in 1..Len(out)}

\* Per-level notifications sent by the last iteration, as the levels they name.
LevelEmails(out) == {out[i].arg : i \in {j \in 1..Len(out) : out[j].kind = "email_level"}}

\* Sensors named by the sensor-fault notifications of the last iteration.
FaultEmails(out) == {out[i].arg : i \in {j \in 1..Len(out) : out[j].kind = "email_fault"}}

----------------------------------------------------------------------------
(* C1 *)

\* C1: when a valid reading p was accepted by one iteration and the next
\* iteration evaluates p again, the first sends a per-level notification
\* and the second sends none.
C1_DebounceIdempotence ==
    [][ ( /\ branch = "accept" /\ pc = "running"
          /\ branch' = "accept"
          /\ user_input'.text = user_input.text )
        => ( LevelEmails(emitted) # {} /\ LevelEmails(emitted') = {} ) ]_vars

----------------------------------------------------------------------------
(* C2 *)

\* C2: a well-formed reading is accepted, and replaces the active reading,
\* exactly if it is a thermometer code at Hamming distance at most 1 from the
\* active reading, whichever of the two is numerically larger; any other
\* well-formed reading leaves the active reading as it was.
C2_TransitionPolicy ==
    (ReadingTaken /\ user_input.text \in WellFormed) =>
        LET p == user_input.text IN
        /\ (branch = "accept") <=> (p \in Thermometer /\ Hamming(before.active, p) <= 1)
        /\ (branch = "accept") => active_value = p
        /\ (branch # "accept") => active_value = before.active
        /\ (p = before.active) => branch = "accept"
        /\ (Hamming(before.active, p) >= 2) => active_value = before.active

\* A numerically lower reading one bit away has replaced the active reading.
C2_Witness ==
    /\ branch = "accept" /\ pc = "running"
    /\ Hamming(before.active, user_input.text) = 1
    /\ BinVal(user_input.text) < BinVal(before.active)
    /\ active_value = user_input.text

----------------------------------------------------------------------------
(* C3 *)

\* C3: a line that is not 6 characters of "0" and "1", taken as a reading,
\* ends in the rejection branch without an exception, sends no per-level and
\* no sensor-fault notification, and leaves the active value, the level and
\* the triggered list as they were.
C3_MalformedRejected ==
    (ReadingTaken /\ user_input.text \notin WellFormed) =>
        /\ branch = "reject"
        /\ pc = "running"
        /\ LevelEmails(emitted) = {} /\ FaultEmails(emitted) = {}
        /\ ~("email_report" \in Kinds(emitted))
        /\ active_value = before.active
        /\ water_level = before.level
        /\ triggered_water_areas = before.trig

\* A line with a character that is no bit was rejected after a level was triggered.
C3_Witness ==
    /\ branch = "reject"
    /\ Contains(user_input.text, "x")
    /\ triggered_water_areas # <<>>

----------------------------------------------------------------------------
(* C4 *)

\* C4: with the 6 names of WATER_LEVEL_NAMES, get_water_level returns a
\* level name for every well-formed reading, 111111 included, so that App
\* starts with the default 111111 and a rise to 111111 raises no exception.
C4_ResolveTotal ==
    /\ (user_input.text \in WellFormed => get_water_level(user_input.text) \in LevelNames)
    /\ get_water_level(default_value) \in LevelNames
    /\ pc # "crashed"

----------------------------------------------------------------------------
(* C5 *)

\* C5: over the 64 well-formed readings validate_bit_value is true exactly
\* for the seven thermometer codes (000000 and 111111 among them) and false
\* whenever some "1" is followed later by a "0"; the mainloop takes the
\* sensor-fault branch for exactly the readings it is false for.
C5_Validator ==
    (user_input.text \in WellFormed) =>
        LET p == user_input.text IN
        /\ validate_bit_value(p) <=> (p \in Thermometer)
        /\ OneBeforeZero(p) => ~validate_bit_value(p)
        /\ ReadingTaken => ((branch = "fault") <=> (p \notin Thermometer))

\* The all-zero reading was accepted as valid.
C5_Witness ==
    /\ branch = "accept"
    /\ user_input.text = Repeat("0", BitLen)

----------------------------------------------------------------------------
(* C6 *)

\* The last iteration executed the reset command: "reset" is a word of the
\* line and no "exit" stands before it.
ResetExecuted ==
    /\ branch = "command"
    /\ \E i \in 1..Len(user_input.words) :
          /\ user_input.words[i] = "reset"
          /\ \A j \in 1..(i - 1) : user_input.words[j] # "exit"

\* C6: after the reset command, from any reachable state, the active value
\* is the default, the level is the level of the default, the triggered list
\* is empty, and no per-level or sensor-fault notification was sent; a line
\* that is the reset command alone calls no sink at all.
C6_Reset ==
    ResetExecuted =>
        /\ active_value = default_value
        /\ water_level = WATER_LEVEL_NAMES[BitLen - TrailingOnes(default_value)]
        /\ triggered_water_areas = <<>>
        /\ LevelEmails(emitted) = {} /\ FaultEmails(emitted) = {}
        /\ (user_input.words = <<"reset">> => emitted = <<>> /\ database = before.db)

\* The reset command alone was executed away from the default, with a level
\* triggered and rows in the table.
C6_Witness ==
    /\ ResetExecuted
    /\ user_input.words = <<"reset">>
    /\ before.active # default_value
    /\ before.trig # <<>>
    /\ DbSize(before.db) > 0

----------------------------------------------------------------------------
(* C7 *)

B111111 == Repeat("1", BitLen)
B111110 == Repeat("1", BitLen - 1) \o <<"0">>
B011111 == <<"0">> \o Repeat("1", BitLen - 1)
B001111 == <<"0", "0">> \o Repeat("1", BitLen - 2)

----------------------------------------------------------------------------
(* C8 *)

\* C8: whenever a reading is accepted that is numerically greater than or
\* equal to the active value it replaces, the triggered list afterwards
\* holds exactly the newly resolved level and a per-level notification for
\* that level was sent by that iteration.
C8_RiseClearsCycle ==
    (branch = "accept" /\ BinVal(user_input.text) >= BinVal(before.active)) =>
        /\ water_level = get_water_level(user_input.text)
        /\ water_level \in LevelNames
        /\ triggered_water_areas = <<water_level>>
        /\ LevelEmails(emitted) = {water_level}

----------------------------------------------------------------------------
(* C9 *)

\* Positions (0-based) of a "0" with a "1" somewhere to its right.
ZerosLeftOfAOne(p) ==
    {i \in 0..(Len(p) - 1) : p[i + 1] = "0" /\ \E j \in (i + 2)..Len(p) : p[j] = "1"}

SetMax(S) == CHOOSE x \in S : \A y \in S : y <= x

\* C9: whenever the sensor-fault branch is taken, the sensor reported is
\* SENSOR_NAMES[i], i the position of the rightmost "0" that has a "1"
\* somewhere to its right.
C9_FaultPosition ==
    (branch = "fault") =>
        /\ ZerosLeftOfAOne(user_input.text) # {}
        /\ FaultEmails(emitted) = {SENSOR_NAMES[SetMax(ZerosLeftOfAOne(user_input.text)) + 1]}

----------------------------------------------------------------------------
(* C10 *)

\* C10 as stated: every well-formed reading at Hamming distance 2 or more
\* from the active value ends in the rejection branch, never in the
\* sensor-fault or the accepting branch, and leaves the active value as it was.
C10_MultiStepRejected_AsStated ==
    ( ReadingTaken /\ user_input.text \in WellFormed
      /\ Hamming(before.active, user_input.text) > 1 ) =>
        /\ branch = "reject"
        /\ FaultEmails(emitted) = {}
        /\ active_value = before.active

\* C10 amended: a well-formed reading at Hamming distance 2 or more from the
\* active value is never accepted and leaves the active value as it was; it
\* ends in the rejection branch, with no notification, if it is a
\* thermometer code, and in the sensor-fault branch if it is not.
C10_MultiStepRejected ==
    ( ReadingTaken /\ user_input.text \in WellFormed
      /\ Hamming(before.active, user_input.text) > 1 ) =>
        /\ branch # "accept"
        /\ active_value = before.active
        /\ (user_input.text \in Thermometer) =>
              /\ branch = "reject"
              /\ FaultEmails(emitted) = {} /\ LevelEmails(emitted) = {}
        /\ (user_input.text \notin Thermometer) => branch = "fault"

\* A thermometer code three bits away from the active value was rejected.
C10_Witness ==
    /\ branch = "reject"
    /\ user_input.text \in Thermometer
    /\ Hamming(before.active, user_input.text) = 3
    /\ active_value = before.active

----------------------------------------------------------------------------
(* C11 *)

\* C11: evaluating a well-formed reading that is no thermometer code leaves
\* the active value, the level and the triggered list exactly as they were,
\* in every reachable state.
C11_FaultKeepsState ==
    (ReadingTaken /\ user_input.text \in WellFormed /\ user_input.text \notin Thermometer) =>
        /\ pc = "running"
        /\ active_value = before.active
        /\ water_level = before.level
        /\ triggered_water_areas = before.trig

\* A reading one bit away from the active value, but no thermometer code, was
\* evaluated while a level was triggered.
C11_Witness ==
    /\ branch = "fault"
    /\ Hamming(before.active, user_input.text) = 1
    /\ before.trig # <<>>
    /\ triggered_water_areas = before.trig

----------------------------------------------------------------------------
(* C12 *)

\* C12: when an accepted reading is numerically lower than the active value
\* it replaces, every level that was in the triggered list before the
\* reading is still in it afterwards.
C12_FallKeepsList ==
    (branch = "accept" /\ BinVal(user_input.text) < BinVal(before.active)) =>
        \A i \in 1..Len(before.trig) : InList(before.trig[i], triggered_water_areas)

----------------------------------------------------------------------------
(* C13 *)

\* C13: a reading produces the aggregate report only if it is accepted, is
\* numerically greater than or equal to the active value it replaces, and
\* resolves to a level in NOTIFICATION_WHEN_RISEN_ABOVE; an accepted reading
\* that is numerically lower never produces it.
C13_ReportOnlyOnRise ==
    (ReadingTaken /\ "email_report" \in Kinds(emitted)) =>
        /\ branch = "accept"
        /\ BinVal(user_input.text) >= BinVal(before.active)
        /\ water_level \in NOTIFICATION_WHEN_RISEN_ABOVE

----------------------------------------------------------------------------
(* C14 *)

\* Length of the trailing run of "1"s: the largest k with the last k bits all "1".
RunOfOnes(p) ==
    SetMax({k \in 0..Len(p) : \A i \in (Len(p) - k + 1)..Len(p) : p[i] = "1"})

\* C14: for every well-formed reading whose trailing run of "1"s has length
\* run in 0..5, get_water_level returns WATER_LEVEL_NAMES[5 - run], whatever
\* stands above the first "0" and whether or not the reading is a
\* thermometer code; an accepted reading makes that name the level.
C14_ResolveRule ==
    (user_input.text \in WellFormed /\ RunOfOnes(user_input.text) <= BitLen - 1) =>
        LET name == WATER_LEVEL_NAMES[(BitLen - 1 - RunOfOnes(user_input.text)) + 1] IN
        /\ get_water_level(user_input.text) = name
        /\ (branch = "accept") => (pc = "running" /\ water_level = name)

\* 010111, no thermometer code, was read: it resolves like 000111.
C14_Witness ==
    /\ branch = "fault"
    /\ user_input.text = <<"0", "1", "0", "1", "1", "1">>
    /\ get_water_level(user_input.text) = get_water_level(Repeat("0", 3) \o Repeat("1", 3))

----------------------------------------------------------------------------
(* C15 *)

\* C15: whenever the sensor-fault branch is taken, get_failing_sensor_name
\* returns one of the six SENSOR_NAMES and never None, and that name is the
\* one notified.
C15_FaultLocalized ==
    (branch = "fault") =>
        /\ get_failing_sensor_name(user_input.text) \in SensorNames
        /\ FaultEmails(emitted) \subseteq SensorNames

----------------------------------------------------------------------------
(* C16 *)

\* Number of sink calls of one kind with one argument in a list of calls.
CountCalls(out, kind, arg) ==
    Cardinality({i \in 1..Len(out) : out[i].kind = kind /\ out[i].arg = arg})

CountKind(out, kind) == Cardinality({i \in 1..Len(out) : out[i].kind = kind})

\* C16: every evaluation of a well-formed reading that is no thermometer
\* code, whatever was evaluated, notified or persisted before, sends exactly
\* one sensor-fault notification and persists exactly one ERROR row.
C16_FaultNeverDebounced ==
    (ReadingTaken /\ user_input.text \in WellFormed /\ user_input.text \notin Thermometer) =>
        /\ branch = "fault"
        /\ CountKind(emitted, "email_fault") = 1
        /\ CountCalls(emitted, "add_entry", "ERROR") = 1
        /\ CountKind(emitted, "add_entry") = 1
        /\ database = [before.db EXCEPT !["ERROR"] = @ + 1]

\* A fault was reported while the table already held an ERROR row and a
\* level had been notified.
C16_Witness ==
    /\ branch = "fault"
    /\ before.db["ERROR"] = 1
    /\ before.trig # <<>>
    /\ CountKind(emitted, "email_fault") = 1

----------------------------------------------------------------------------
(* C17 *)

\* C17: App constructed with a default that is a thermometer code has a
\* thermometer code as active value in every reachable state, after any
\* readings (well-formed, malformed, faulty, multi-step) and commands.
C17_ActiveIsThermometer ==
    (default_value \in Thermometer) =>
        (active_value \in Thermometer /\ before.active \in Thermometer)

\* A reading that is no thermometer code, one bit away from an active value
\* that is not the default, was evaluated.
C17_Witness ==
    /\ branch = "fault"
    /\ Hamming(before.active, user_input.text) = 1
    /\ active_value # default_value
    /\ active_value \in Thermometer

----------------------------------------------------------------------------
(* C18 *)

Abs(n) == IF n < 0 THEN -n ELSE n

\* Position (0-based) of a level name in WATER_LEVEL_NAMES.
NamePosition(name) == (CHOOSE i \in 1..Len(WATER_LEVEL_NAMES) : WATER_LEVEL_NAMES[i] = name) - 1

\* C18: for the active values before and after one accepted reading, the
\* lengths of the trailing runs of "1"s differ by at most 1, and the level
\* moves by at most one position in WATER_LEVEL_NAMES.
C18_NoLevelSkipped ==
    (branch = "accept") =>
        /\ Abs(RunOfOnes(active_value) - RunOfOnes(before.active)) <= 1
        /\ (water_level \in LevelNames /\ before.level \in LevelNames) =>
              Abs(NamePosition(water_level) - NamePosition(before.level)) <= 1

\* An accepted rise moved the level by exactly one position.
C18_Witness ==
    /\ branch = "accept" /\ pc = "running"
    /\ BinVal(active_value) > BinVal(before.active)
    /\ RunOfOnes(active_value) = RunOfOnes(before.active) + 1
    /\ Abs(NamePosition(water_level) - NamePosition(before.level)) = 1

----------------------------------------------------------------------------
(* C19 *)

\* The list holds at most one level, and that level is the active level.
ListIsActiveLevel ==
    /\ Len(triggered_water_areas) <= 1
    /\ (triggered_water_areas # <<>>) => (triggered_water_areas[1] = water_level)

\* C19: in every reachable state triggered_water_areas holds at most one
\* level, which is the active level; every accepted reading sends exactly
\* one per-level notification, and faulty or rejected readings send none.
C19_ListInvariant ==
    /\ ListIsActiveLevel
    /\ (branch = "accept") => CountKind(emitted, "email_level") = 1
    /\ (branch \in {"fault", "reject"}) => CountKind(emitted, "email_level") = 0

----------------------------------------------------------------------------
(* C20 *)

\* C20: when an accepted reading triggers the aggregate report, its own
\* level row is added first, then the rows are counted (the report counts
\* the reading), then all rows are deleted, then the report is sent, and
\* the per-level notification of the reading is sent last; the table is
\* empty after the iteration.
C20_ReportOrder ==
    (branch = "accept" /\ "email_report" \in Kinds(emitted)) =>
        LET counted == [before.db EXCEPT ![water_level] = @ + 1] IN
        /\ emitted = << Ev("add_entry", water_level),
                        Ev("count_entries_by_level", "all"),
                        Ev("delete_all_entries", "all"),
                        [kind |-> "email_report", arg |-> "Report", counts |-> counted],
                        Ev("email_level", water_level) >>
        /\ counted[water_level] >= 1
        /\ DbSize(database) = 0

\* A report was triggered by a reading while the table held an ERROR row.
C20_Witness ==
    /\ branch = "accept"
    /\ "email_report" \in Kinds(emitted)
    /\ before.db["ERROR"] = 1
    /\ DbSize(database) = 0

====
